---------------------------- MODULE Spec2Model ----------------------------
(***************************************************************************)
(* hive-json-poster: three command-line scripts over the beem client       *)
(* library.                                                                *)
(*   - hive_json_poster.main / post_custom_json : broadcast 20 custom-JSON *)
(*     operations (SpecPoster)                                             *)
(*   - get_profile.main / get_account_details   : read an account profile  *)
(*     (SpecProfile)                                                       *)
(*   - verify_transaction.main                  : list recent history and  *)
(*     look a transaction up by id (SpecVerify)                            *)
(* The library (Hive, Account, Blockchain) is the environment: every call  *)
(* into it either returns a value drawn from a small set or raises.        *)
(***************************************************************************)
EXTENDS Integers, Sequences, FiniteSets, TLC

VARIABLES
    script,       \* which entry point this process runs
    pc,           \* position inside the entry point
    out,          \* printed messages, in order (the poster's per-post lines
                  \* are kept in lastLine only)
    calls,        \* calls made into the library by verify_transaction and
                  \* get_profile, in order
    escaped,      \* TRUE when an exception left main uncaught
    exitCode,     \* process exit code set by sys.exit, -1 while none
    \* ---- hive_json_poster
    env,          \* environment read by os.getenv
    i,            \* loop counter of main
    successful,   \* main's local counter
    failed,       \* main's local counter
    lastLine,     \* the last per-post line printed by the loop
    posted,       \* counters of the payloads handed to post_custom_json
    lastOp,       \* the operation last handed to hive.custom_json
    args,         \* required_auths / required_posting_auths of a direct call
    nRaised,      \* history: number of post_custom_json calls that raised
    pattern5,     \* history: so far exactly every 5th call raised
    \* ---- verify_transaction
    argv,         \* sys.argv
    tx_id,        \* main's local, None while unassigned
    chainHistory, \* the account's custom_json operations on the chain
    lookupReturned, \* history: what get_transaction returned, if it did
    \* ---- get_profile
    stdin,        \* the line input() would read
    accountName,  \* main's local account_name, None while unassigned
    balances,     \* get_account_details' local, the value of get_balances()
    profile,      \* get_account_details' local
    gadResult,    \* "pending", or how get_account_details ended
    raisedCalls   \* history: the library calls that raised

commonVars == <<script, pc, out, calls, escaped, exitCode, env, raisedCalls>>
posterVars == <<i, successful, failed, lastLine, posted, lastOp, args, nRaised, pattern5>>
verifyVars == <<argv, tx_id, chainHistory, lookupReturned>>
profileVars == <<stdin, accountName, balances, profile, gadResult>>
vars == <<commonVars, posterVars, verifyVars, profileVars>>

-----------------------------------------------------------------------------
(* Python values *)

None == "None"

\* an optional list argument: None, or a list
NoList == [supplied |-> FALSE, list |-> <<>>]
SomeList(l) == [supplied |-> TRUE, list |-> l]

\* truthiness of a string-or-None value
Truthy(v) == v # None /\ v # ""

\* a printed message: what it is, and the values formatted into it
Msg(tag, data) == [msg |-> tag, data |-> data]

Said(tag) == \E k \in 1..Len(out) : out[k].msg = tag

Called(name) == \E k \in 1..Len(calls) : calls[k][1] = name

Max(a, b) == IF a >= b THEN a ELSE b

-----------------------------------------------------------------------------
(* hive_json_poster *)

NumPosts == 20

DefaultJsonId == "custom-json-app"

\* os.getenv(name, default)
GetEnv(e, name, default) == IF e[name] = None THEN default ELSE e[name]

Envs == [HIVE_ACCOUNT : {None, "", "alice"},
         HIVE_POSTING_KEY : {None, "5Jkey"},
         HIVE_JSON_ID : {None, "my-app"}]

\* what a caller may pass for an optional auth list
AuthArgs == {NoList, SomeList(<<>>), SomeList(<<"bob">>)}

\* faulty variant: an emptiness test in place of the None test
PostingAuthsIfEmpty(account_name, required_posting_auths) ==
    IF required_posting_auths.list = <<>>
    THEN <<account_name>>
    ELSE required_posting_auths.list

\* post_custom_json, lines 36-37
PostingAuths(account_name, required_posting_auths) ==
    IF ~required_posting_auths.supplied
    THEN <<account_name>>
    ELSE required_posting_auths.list

\* post_custom_json, lines 38-39
ActiveAuths(required_auths) ==
    IF ~required_auths.supplied THEN <<>> ELSE required_auths.list

\* the keyword arguments of hive.custom_json, lines 42-47
CustomJsonOp(account_name, json_id, json_data, required_auths, required_posting_auths) ==
    [id |-> json_id,
     json_data |-> json_data,
     required_auths |-> ActiveAuths(required_auths),
     required_posting_auths |->
         PostingAuths(account_name, required_posting_auths)]

NoOp == [id |-> None,
         json_data |-> [app |-> None, action |-> None, counter |-> 0],
         required_auths |-> <<>>,
         required_posting_auths |-> <<>>]

\* what the library can do with one post_custom_json call
ResultKeys == {"trx_id", "id", "txid"}
Results == [ResultKeys -> {None, "", "9f3a"}]
PostOutcomes == {"hive_raises", "custom_json_raises", "returns"}

\* main, lines 75-81 (the timestamp is left out: it is not read again)
JsonData(counter) ==
    [app |-> "hive-json-poster", action |-> "test", counter |-> counter]

\* main, line 94
TxIdOf(result) ==
    IF Truthy(result["trx_id"]) THEN result["trx_id"]
    ELSE IF Truthy(result["id"]) THEN result["id"]
    ELSE result["txid"]

\* main, lines 96-101: the line printed for a post that returned
SuccessLine(tx) == IF Truthy(tx) THEN "success" ELSE "no_txid"

\* faulty variant: a post that returned no transaction id is not counted
CountsAsSuccessOnlyWithId(tx) == IF Truthy(tx) THEN 1 ELSE 0

\* main, lines 98 and 101: both branches count the post as successful
CountsAsSuccess(tx) == 1


-----------------------------------------------------------------------------
(* verify_transaction *)

MaxHistory == 11

RecentWindow == 10

TxIds == {"497f", "c0de"}

\* the operations account.history yields: ids in chain order, block = position
RECURSIVE IdSeqs(_)
IdSeqs(n) ==
    IF n = 0 THEN {<<>>}
    ELSE IdSeqs(n - 1) \cup
         {Append(h, t) : h \in {x \in IdSeqs(n - 1) : Len(x) = n - 1}, t \in TxIds}

OpsOf(ids) == [k \in 1..Len(ids) |-> [trx_id |-> ids[k], block |-> k]]

Histories == {OpsOf(ids) : ids \in IdSeqs(MaxHistory)}

Argvs == {<<"verify_transaction.py">>} \cup {<<"verify_transaction.py", t>> : t \in TxIds}

\* faulty variant: the test is off by one and lets a missing argument through
HasTxArgOffByOne(a) == ~(Len(a) < 1)

\* main, line 18: the negation of len(sys.argv) < 2
HasTxArg(a) == ~(Len(a) < 2)

\* sys.argv[k] (0-based), None standing for the local never assigned
ArgOrNone(a, k) == IF Len(a) > k THEN a[k + 1] ELSE None

\* faulty variant: the first 10 operations instead of the last 10
RecentOpsHead(history) == SubSeq(history, 1, IF Len(history) < RecentWindow THEN Len(history) ELSE RecentWindow)

\* main, line 41: history[-10:]
RecentOps(history) == SubSeq(history, Max(1, Len(history) - RecentWindow + 1), Len(history))

\* faulty variant: the test of the lookup's result is inverted
LookupReportInverted(tx) == IF tx = None THEN "tx_found" ELSE "tx_not_found"

\* faulty variant: a lookup that returned nothing is reported as an error
LookupReportNoneIsError(tx) == IF tx # None THEN "tx_found" ELSE "lookup_error"

\* main, lines 60-64: what is printed for the value get_transaction returned
LookupReport(tx) == IF tx # None THEN "tx_found" ELSE "tx_not_found"

-----------------------------------------------------------------------------
(* get_profile: values *)

MaxMana == 2

\* an entry of a balance group: absent, an Amount, or an object float() rejects
Missing == [kind |-> "missing", amount |-> 0]
Bad == [kind |-> "bad", amount |-> 0]
Amount(a) == [kind |-> "amount", amount |-> a]

\* amounts in thousandths
EntryValues == {Missing, Bad, Amount(1500)}

\* a balance group: a dict from symbol to entry, or not a dict at all
Groups(symbols) == [isDict : {TRUE}, entries : [symbols -> EntryValues]] \cup
                   {[isDict |-> FALSE, entries |-> [x \in symbols |-> Missing]]}

AllSymbols == {"HIVE", "HBD", "VESTS"}

BalanceSets == [available : Groups(AllSymbols \ {"VESTS"}),
                savings : Groups(AllSymbols \ {"VESTS"}),
                rewards : Groups(AllSymbols)]

NoBalances == [available |-> [isDict |-> FALSE, entries |-> [x \in AllSymbols \ {"VESTS"} |-> Missing]],
               savings |-> [isDict |-> FALSE, entries |-> [x \in AllSymbols \ {"VESTS"} |-> Missing]],
               rewards |-> [isDict |-> FALSE, entries |-> [x \in AllSymbols |-> Missing]]]

\* the value of account.json()
AccountData == [created |-> "2020-03-20T12:00:00", post_count |-> 12, comment_count |-> 34]

\* the values of account.rep, get_steem_power(onlyOwnSP=True / False) and
\* get_voting_power(), when they return
AccountValues == [rep |-> 62, own_power |-> 1000, effective_power |-> 1250, voting_power |-> 98]

\* the manabars get_rc_manabar() may return
Manabars == [current_mana : 0..MaxMana, max_mana : 0..MaxMana]

\* the values get_follow_count() may return: a dict with or without the
\* counts, or something that is no dict
FollowCounts == {[isDict |-> TRUE, has |-> TRUE, follower_count |-> 3, following_count |-> 4],
                 [isDict |-> TRUE, has |-> FALSE, follower_count |-> 0, following_count |-> 0],
                 [isDict |-> FALSE, has |-> FALSE, follower_count |-> 0, following_count |-> 0]}

NoRC == [kind |-> "unset", error |-> None, current_rc |-> 0, max_rc |-> 0, rc_percentage |-> 0]

NoStats == [set |-> FALSE, post_count |-> 0, comment_count |-> 0, followers |-> 0, following |-> 0]

NoProfile ==
    [username |-> None, reputation |-> 0, created |-> None,
     hive_balance |-> 0, hbd_balance |-> 0, savings_hive |-> 0, savings_hbd |-> 0,
     hive_power |-> 0, effective_hive_power |-> 0,
     delegated_hive_power |-> 0, received_hive_power |-> 0,
     voting_power |-> 0, voting_value_hbd |-> 0,
     pending_rewards_hive |-> 0, pending_rewards_hbd |-> 0, pending_rewards_vests |-> 0,
     resource_credits |-> NoRC, stats |-> NoStats]

-----------------------------------------------------------------------------
(* the variables of the entry points that are not running *)

IdlePoster ==
    /\ i = 0
    /\ successful = 0
    /\ failed = 0
    /\ lastLine = None
    /\ posted = <<>>
    /\ lastOp = NoOp
    /\ args = [required_auths |-> NoList, required_posting_auths |-> NoList]
    /\ nRaised = 0
    /\ pattern5 = TRUE

IdleVerify ==
    /\ argv = <<>>
    /\ tx_id = None
    /\ chainHistory = <<>>
    /\ lookupReturned = "unset"

IdleProfile ==
    /\ stdin = None
    /\ accountName = None
    /\ balances = NoBalances
    /\ profile = NoProfile
    /\ gadResult = "pending"

-----------------------------------------------------------------------------
(* hive_json_poster: main and post_custom_json *)

InitPoster ==
    /\ script \in {"poster_main", "post_custom_json"}
    /\ pc = "start"
    /\ out = <<>>
    /\ calls = <<>>
    /\ escaped = FALSE
    /\ exitCode = -1
    /\ env \in Envs
    /\ i = 0
    /\ successful = 0
    /\ failed = 0
    /\ lastLine = None
    /\ posted = <<>>
    /\ lastOp = NoOp
    /\ args \in [required_auths : AuthArgs, required_posting_auths : AuthArgs]
    /\ (script = "poster_main" => args = [required_auths |-> NoList,
                                          required_posting_auths |-> NoList])
    /\ (script = "post_custom_json" =>
            env.HIVE_ACCOUNT = "alice" /\ env.HIVE_POSTING_KEY = "5Jkey")
    /\ nRaised = 0
    /\ pattern5 = TRUE
    /\ raisedCalls = {}
    /\ IdleVerify
    /\ IdleProfile

\* main, lines 55-71
PosterStart ==
    /\ script = "poster_main"
    /\ pc = "start"
    /\ IF ~Truthy(env.HIVE_ACCOUNT) \/ ~Truthy(env.HIVE_POSTING_KEY)
       THEN /\ out' = <<Msg("env_not_set", <<>>)>>
            /\ pc' = "done"
            /\ UNCHANGED <<i, successful, failed>>
       ELSE /\ out' = <<Msg("header", <<env.HIVE_ACCOUNT, GetEnv(env, "HIVE_JSON_ID", DefaultJsonId)>>)>>
            /\ pc' = "loop"
            /\ i' = 1
            /\ successful' = 0
            /\ failed' = 0
    /\ UNCHANGED <<script, calls, escaped, exitCode, env, raisedCalls, lastLine,
                   posted, lastOp, args, nRaised, pattern5, verifyVars, profileVars>>

\* main, lines 73-105: one iteration of the loop, the call included
PosterPost ==
    /\ script = "poster_main"
    /\ pc = "loop"
    /\ i <= NumPosts
    /\ \E outcome \in PostOutcomes, result \in Results :
        LET op == CustomJsonOp(env.HIVE_ACCOUNT,
                               GetEnv(env, "HIVE_JSON_ID", DefaultJsonId),
                               JsonData(i), args.required_auths,
                               args.required_posting_auths)
            raised == outcome # "returns"
        IN /\ posted' = Append(posted, JsonData(i).counter)
           /\ lastOp' = IF outcome = "hive_raises" THEN lastOp ELSE op
           /\ IF raised
              THEN /\ failed' = failed + 1
                   /\ successful' = successful
                   /\ lastLine' = "error"
              ELSE /\ successful' =
                          successful + CountsAsSuccess(TxIdOf(result))
                   /\ failed' = failed
                   /\ lastLine' = SuccessLine(TxIdOf(result))
           /\ nRaised' = IF raised THEN nRaised + 1 ELSE nRaised
           /\ pattern5' = (pattern5 /\ (raised <=> (i % 5 = 0)))
    /\ i' = i + 1
    /\ pc' = IF i + 1 > NumPosts THEN "summary" ELSE "loop"
    /\ UNCHANGED <<script, out, calls, escaped, exitCode, env, raisedCalls, args, verifyVars, profileVars>>

\* main, lines 107-109
PosterSummary ==
    /\ script = "poster_main"
    /\ pc = "summary"
    /\ out' = Append(out, Msg("summary", <<successful, failed>>))
    /\ pc' = "done"
    /\ UNCHANGED <<script, calls, escaped, exitCode, env, raisedCalls, posterVars, verifyVars, profileVars>>

\* post_custom_json called directly by a user of the package, lines 10-49
PostCustomJson ==
    /\ script = "post_custom_json"
    /\ pc = "start"
    /\ \E outcome \in PostOutcomes :
        /\ lastOp' = IF outcome = "hive_raises" THEN lastOp
                     ELSE CustomJsonOp(env.HIVE_ACCOUNT,
                                       GetEnv(env, "HIVE_JSON_ID", DefaultJsonId),
                                       JsonData(0), args.required_auths,
                                       args.required_posting_auths)
        /\ nRaised' = IF outcome = "returns" THEN 0 ELSE 1
    /\ pc' = "done"
    /\ UNCHANGED <<script, out, calls, escaped, exitCode, env, raisedCalls, i,
                   successful, failed, lastLine, posted, args, pattern5, verifyVars, profileVars>>

NextPoster == PosterStart \/ PosterPost \/ PosterSummary \/ PostCustomJson

SpecPoster == InitPoster /\ [][NextPoster]_vars

-----------------------------------------------------------------------------
(* verify_transaction: main *)

InitVerify ==
    /\ script = "verify_transaction"
    /\ pc = "start"
    /\ out = <<>>
    /\ calls = <<>>
    /\ escaped = FALSE
    /\ exitCode = -1
    /\ env \in {e \in Envs : e.HIVE_POSTING_KEY = None /\ e.HIVE_JSON_ID = None /\ e.HIVE_ACCOUNT # ""}
    /\ raisedCalls = {}
    /\ IdlePoster
    /\ argv \in Argvs
    /\ tx_id = None
    /\ chainHistory \in Histories
    /\ lookupReturned = "unset"
    /\ IdleProfile

\* main, lines 13-26
VerifyStart ==
    /\ script = "verify_transaction"
    /\ pc = "start"
    /\ IF ~HasTxArg(argv)
       THEN /\ out' = <<Msg("usage", <<>>)>>
            /\ exitCode' = 1
            /\ pc' = "done"
            /\ tx_id' = tx_id
       ELSE /\ tx_id' = ArgOrNone(argv, 1)
            /\ out' = <<Msg("checking", <<env.HIVE_ACCOUNT, ArgOrNone(argv, 1)>>)>>
            /\ exitCode' = exitCode
            /\ pc' = "hive"
    /\ UNCHANGED <<script, calls, escaped, env, raisedCalls, posterVars, argv,
                   chainHistory, lookupReturned, profileVars>>

\* main, line 29: Hive(), outside every try
VerifyHive ==
    /\ script = "verify_transaction"
    /\ pc = "hive"
    /\ calls' = Append(calls, <<"Hive">>)
    /\ \E raises \in BOOLEAN :
        IF raises
        THEN /\ raisedCalls' = raisedCalls \cup {"Hive"}
             /\ escaped' = TRUE
             /\ pc' = "done"
        ELSE /\ pc' = "account"
             /\ UNCHANGED <<raisedCalls, escaped>>
    /\ UNCHANGED <<script, out, exitCode, env, posterVars, verifyVars, profileVars>>

\* main, lines 32-33: Account(account_name, ...), outside every try
VerifyAccount ==
    /\ script = "verify_transaction"
    /\ pc = "account"
    /\ calls' = Append(calls, <<"Account", env.HIVE_ACCOUNT>>)
    /\ out' = Append(out, Msg("history_header", <<>>))
    /\ \E raises \in BOOLEAN :
        /\ IF raises
           THEN /\ raisedCalls' = raisedCalls \cup {"Account"}
                /\ escaped' = TRUE
                /\ pc' = "done"
           ELSE /\ pc' = "history"
                /\ UNCHANGED <<raisedCalls, escaped>>
    /\ UNCHANGED <<script, exitCode, env, posterVars, verifyVars, profileVars>>

\* main, lines 35-53: the history step
VerifyHistory ==
    /\ script = "verify_transaction"
    /\ pc = "history"
    /\ calls' = Append(calls, <<"history", "custom_json">>)
    /\ \E raises \in BOOLEAN :
        IF raises
        THEN /\ raisedCalls' = raisedCalls \cup {"history"}
             /\ out' = Append(out, Msg("history_error", <<>>))
        ELSE /\ raisedCalls' = raisedCalls
             /\ out' = Append(out, IF chainHistory # <<>>
                                   THEN Msg("recent_ops", RecentOps(chainHistory))
                                   ELSE Msg("no_recent_ops", <<>>))
    /\ pc' = "lookup"
    /\ UNCHANGED <<script, escaped, exitCode, env, posterVars, verifyVars, profileVars>>

\* main, lines 56-66: the lookup step
VerifyLookup ==
    /\ script = "verify_transaction"
    /\ pc = "lookup"
    /\ \E outcome \in {"Blockchain_raises", "get_transaction_raises", "returns_tx", "returns_none"} :
        /\ calls' = IF outcome = "Blockchain_raises"
                    THEN Append(calls, <<"Blockchain">>)
                    ELSE calls \o << <<"Blockchain">>, <<"get_transaction", tx_id>> >>
        /\ IF outcome \in {"Blockchain_raises", "get_transaction_raises"}
           THEN /\ raisedCalls' = raisedCalls \cup
                        {IF outcome = "Blockchain_raises" THEN "Blockchain" ELSE "get_transaction"}
                /\ out' = out \o <<Msg("lookup_header", <<>>), Msg("lookup_error", <<>>)>>
                /\ lookupReturned' = lookupReturned
           ELSE LET tx == IF outcome = "returns_tx" THEN tx_id ELSE None
                IN /\ raisedCalls' = raisedCalls
                   /\ out' = out \o <<Msg("lookup_header", <<>>), Msg(LookupReport(tx), <<tx>>)>>
                   /\ lookupReturned' = IF tx # None THEN "tx" ELSE "none"
    /\ pc' = "done"
    /\ UNCHANGED <<script, escaped, exitCode, env, posterVars, argv, tx_id, chainHistory, profileVars>>

NextVerify == VerifyStart \/ VerifyHive \/ VerifyAccount \/ VerifyHistory \/ VerifyLookup

SpecVerify == InitVerify /\ [][NextVerify]_vars

-----------------------------------------------------------------------------
(* get_profile: get_account_details and main *)

\* input(...).strip() on the lines the model reads
Strip(line) == IF line = " alice " THEN "alice" ELSE ""

StdinLines == {"", "  ", " alice "}

\* faulty variant: the test of the entry is inverted, so float() is reached only
\* with nothing to convert
GetBalanceValueInverted(balance_dict, symbol) == 0

\* get_account_details, lines 35-43: get_balance_value, in thousandths;
\* .get on something that is no dict and float() of a bad entry raise, and
\* the bare except turns both into 0.0
GetBalanceValue(balance_dict, symbol) ==
    IF ~balance_dict.isDict THEN 0
    ELSE LET amount_obj == balance_dict.entries[symbol]
         IN IF amount_obj.kind = "missing" THEN 0
            ELSE IF amount_obj.kind = "bad" THEN 0
            ELSE amount_obj.amount

\* round(x, 2) of x = n / d >= 0, in hundredths: to nearest, ties to even
RoundHundredths(n, d) ==
    LET q == (n * 100) \div d
        r == (n * 100) % d
    IN IF 2 * r < d THEN q
       ELSE IF 2 * r > d THEN q + 1
       ELSE IF q % 2 = 0 THEN q ELSE q + 1

\* get_account_details, lines 76 and 81: rc_percentage, in hundredths of a
\* percent
RcPercentage(current_rc, max_rc) ==
    IF max_rc > 0 THEN RoundHundredths(current_rc * 100, max_rc) ELSE 0

\* get_account_details, lines 74-84 (the two formatted strings left out)
ResourceCredits(rc_manabar) ==
    [kind |-> "ok", error |-> None,
     current_rc |-> rc_manabar.current_mana,
     max_rc |-> rc_manabar.max_mana,
     rc_percentage |-> RcPercentage(rc_manabar.current_mana, rc_manabar.max_mana)]

\* get_account_details, line 86
ResourceCreditsError == [NoRC EXCEPT !.kind = "error", !.error = "rc failed"]

\* get_account_details, lines 91-92
FollowerCount(follow_count) ==
    IF follow_count.isDict /\ follow_count.has THEN follow_count.follower_count ELSE 0

FollowingCount(follow_count) ==
    IF follow_count.isDict /\ follow_count.has THEN follow_count.following_count ELSE 0

\* get_account_details, lines 46-69
BasicProfile(name, b) ==
    [NoProfile EXCEPT
        !.username = name,
        !.reputation = AccountValues.rep,
        !.created = AccountData.created,
        !.hive_balance = GetBalanceValue(b.available, "HIVE"),
        !.hbd_balance = GetBalanceValue(b.available, "HBD"),
        !.savings_hive = GetBalanceValue(b.savings, "HIVE"),
        !.savings_hbd = GetBalanceValue(b.savings, "HBD"),
        !.hive_power = AccountValues.own_power,
        !.effective_hive_power = AccountValues.effective_power,
        !.voting_power = AccountValues.voting_power,
        !.pending_rewards_hive = GetBalanceValue(b.rewards, "HIVE"),
        !.pending_rewards_hbd = GetBalanceValue(b.rewards, "HBD"),
        !.pending_rewards_vests = GetBalanceValue(b.rewards, "VESTS")]

InitProfile ==
    /\ script = "get_profile"
    /\ pc = "start"
    /\ out = <<>>
    /\ calls = <<>>
    /\ escaped = FALSE
    /\ exitCode = -1
    /\ env \in {e \in Envs : e.HIVE_POSTING_KEY = None /\ e.HIVE_JSON_ID = None /\ e.HIVE_ACCOUNT # ""}
    /\ raisedCalls = {}
    /\ IdlePoster
    /\ IdleVerify
    \* the line on stdin matters only when input() is reached
    /\ stdin \in IF Truthy(env.HIVE_ACCOUNT) THEN {""} ELSE StdinLines
    /\ accountName = None
    /\ balances = NoBalances
    /\ profile = NoProfile
    /\ gadResult = "pending"

\* get_account_details raises: main's except prints the error and the trace
GadRaises(call) ==
    /\ raisedCalls' = raisedCalls \cup {call}
    /\ gadResult' = "raised"
    /\ pc' = "main_except"

\* main, lines 110-122
ProfileStart ==
    /\ script = "get_profile"
    /\ pc = "start"
    /\ LET name == IF Truthy(env.HIVE_ACCOUNT) THEN env.HIVE_ACCOUNT ELSE Strip(stdin)
       IN /\ accountName' = name
          /\ stdin' = IF Truthy(env.HIVE_ACCOUNT) THEN stdin ELSE None
          /\ IF ~Truthy(name)
             THEN out' = <<Msg("account_required", <<>>)>> /\ pc' = "done"
             ELSE out' = <<Msg("fetching", <<name>>)>> /\ pc' = "gad_hive"
    /\ UNCHANGED <<script, calls, escaped, exitCode, env, raisedCalls, posterVars,
                   verifyVars, balances, profile, gadResult>>

\* get_account_details, line 23
GadHive ==
    /\ script = "get_profile"
    /\ pc = "gad_hive"
    /\ calls' = Append(calls, <<"Hive">>)
    /\ \E raises \in BOOLEAN :
        IF raises THEN GadRaises("Hive")
        ELSE pc' = "gad_account" /\ UNCHANGED <<raisedCalls, gadResult>>
    /\ UNCHANGED <<script, out, escaped, exitCode, env, posterVars, verifyVars,
                   stdin, accountName, balances, profile>>

\* get_account_details, line 26: raises when the account does not exist
GadAccount ==
    /\ script = "get_profile"
    /\ pc = "gad_account"
    /\ calls' = Append(calls, <<"Account">>)
    /\ \E raises \in BOOLEAN :
        IF raises THEN GadRaises("Account")
        ELSE pc' = "gad_json" /\ UNCHANGED <<raisedCalls, gadResult>>
    /\ UNCHANGED <<script, out, escaped, exitCode, env, posterVars, verifyVars,
                   stdin, accountName, balances, profile>>

\* get_account_details, lines 29-32: account.json() and get_balances()
GadBalances ==
    /\ script = "get_profile"
    /\ pc = "gad_json"
    /\ \E outcome \in {"json_raises", "get_balances_raises", "returns"} :
        /\ calls' = IF outcome = "json_raises" THEN Append(calls, <<"json">>)
                    ELSE calls \o << <<"json">>, <<"get_balances">> >>
        /\ IF outcome = "returns"
           THEN /\ balances' \in BalanceSets
                /\ pc' = "gad_profile"
                /\ UNCHANGED <<raisedCalls, gadResult>>
           ELSE /\ GadRaises(IF outcome = "json_raises" THEN "json" ELSE "get_balances")
                /\ UNCHANGED balances
    /\ UNCHANGED <<script, out, escaped, exitCode, env, posterVars, verifyVars,
                   stdin, accountName, profile>>

\* get_account_details, lines 46-69: the dict is built in one expression, and
\* get_steem_power (twice) and get_voting_power are called inside it with no
\* try around them
GadProfile ==
    /\ script = "get_profile"
    /\ pc = "gad_profile"
    /\ \E outcome \in {"own_power_raises", "effective_power_raises", "voting_power_raises", "returns"} :
        /\ calls' = calls \o
                (CASE outcome = "own_power_raises" -> << <<"get_steem_power">> >>
                   [] outcome = "effective_power_raises" ->
                        << <<"get_steem_power">>, <<"get_steem_power">> >>
                   [] OTHER -> << <<"get_steem_power">>, <<"get_steem_power">>,
                                  <<"get_voting_power">> >>)
        /\ IF outcome = "returns"
           THEN /\ profile' = BasicProfile(accountName, balances)
                /\ pc' = "gad_rc"
                /\ UNCHANGED <<raisedCalls, gadResult>>
           ELSE /\ GadRaises(IF outcome = "voting_power_raises"
                             THEN "get_voting_power" ELSE "get_steem_power")
                /\ UNCHANGED profile
    /\ UNCHANGED <<script, out, escaped, exitCode, env, posterVars, verifyVars,
                   stdin, accountName, balances>>

\* get_account_details, lines 72-86: the RC block, inside its own try
GadRC ==
    /\ script = "get_profile"
    /\ pc = "gad_rc"
    /\ calls' = Append(calls, <<"get_rc_manabar">>)
    /\ \/ /\ raisedCalls' = raisedCalls \cup {"get_rc_manabar"}
          /\ profile' = [profile EXCEPT !.resource_credits = ResourceCreditsError]
       \/ \E rc_manabar \in Manabars :
          /\ raisedCalls' = raisedCalls
          /\ profile' = [profile EXCEPT !.resource_credits = ResourceCredits(rc_manabar)]
    /\ pc' = "gad_follow"
    /\ UNCHANGED <<script, out, escaped, exitCode, env, posterVars, verifyVars,
                   stdin, accountName, balances, gadResult>>

\* get_account_details, lines 89-104: follow counts inside their own try, the
\* stats, and the return
GadFollow ==
    /\ script = "get_profile"
    /\ pc = "gad_follow"
    /\ calls' = Append(calls, <<"get_follow_count">>)
    /\ \/ /\ raisedCalls' = raisedCalls \cup {"get_follow_count"}
          /\ profile' = [profile EXCEPT !.stats =
                [set |-> TRUE, post_count |-> AccountData.post_count,
                 comment_count |-> AccountData.comment_count,
                 followers |-> 0, following |-> 0]]
       \/ \E follow_count \in FollowCounts :
          /\ raisedCalls' = raisedCalls
          /\ profile' = [profile EXCEPT !.stats =
                [set |-> TRUE, post_count |-> AccountData.post_count,
                 comment_count |-> AccountData.comment_count,
                 followers |-> FollowerCount(follow_count),
                 following |-> FollowingCount(follow_count)]]
    /\ gadResult' = "returned"
    /\ pc' = "main_report"
    /\ UNCHANGED <<script, out, escaped, exitCode, env, posterVars, verifyVars,
                   stdin, accountName, balances>>

\* main, lines 127-168
ProfileReport ==
    /\ script = "get_profile"
    /\ pc = "main_report"
    /\ out' = out \o <<Msg("profile", <<profile.username>>),
                       IF profile.resource_credits.kind # "error"
                       THEN Msg("rc", <<profile.resource_credits.rc_percentage>>)
                       ELSE Msg("rc_error", <<profile.resource_credits.error>>),
                       Msg("stats", <<profile.stats.followers, profile.stats.following>>)>>
    /\ pc' = "done"
    /\ UNCHANGED <<script, calls, escaped, exitCode, env, raisedCalls, posterVars,
                   verifyVars, profileVars>>

\* main, lines 170-173
ProfileExcept ==
    /\ script = "get_profile"
    /\ pc = "main_except"
    /\ out' = out \o <<Msg("profile_error", <<>>), Msg("traceback", <<>>)>>
    /\ pc' = "done"
    /\ UNCHANGED <<script, calls, escaped, exitCode, env, raisedCalls, posterVars,
                   verifyVars, profileVars>>

NextProfile ==
    \/ ProfileStart \/ GadHive \/ GadAccount \/ GadBalances \/ GadProfile
    \/ GadRC \/ GadFollow \/ ProfileReport \/ ProfileExcept

SpecProfile == InitProfile /\ [][NextProfile]_vars

-----------------------------------------------------------------------------
(* Properties of the verifier *)

TrxIds(ops) == {ops[k].trx_id : k \in 1..Len(ops)}

MsgIndex(tag) == CHOOSE k \in 1..Len(out) : out[k].msg = tag

CountSaid(tag) == Cardinality({k \in 1..Len(out) : out[k].msg = tag})

Verifying == script = "verify_transaction"

HistoryReturned == Said("recent_ops") \/ Said("no_recent_ops")

InRecentHistory == tx_id \in TrxIds(RecentOps(chainHistory))

ErrorSaid == Said("history_error") \/ Said("lookup_error")

C4_FoundOnlyByLookup ==
    /\ (Verifying /\ pc # "done") => ~Said("tx_found")
    /\ (Verifying /\ pc = "done" /\ lookupReturned = "tx" /\ ~InRecentHistory) =>
            /\ CountSaid("tx_found") = 1
            /\ out[Len(out)] = Msg("tx_found", <<tx_id>>)
            /\ out[Len(out) - 1].msg = "lookup_header"
            /\ calls[Len(calls)] = <<"get_transaction", tx_id>>

\* C4 witness: the id is in the history but older than the last 10, and the
\* lookup returned the transaction
C4_Witness ==
    /\ Verifying /\ pc = "done" /\ HistoryReturned
    /\ Len(chainHistory) > RecentWindow
    /\ chainHistory[1].trx_id = tx_id
    /\ ~InRecentHistory
    /\ lookupReturned = "tx"
    /\ out[Len(out)].msg = "tx_found"

\* C8 as stated, for verify_transaction's main: no exception raised by a
\* library call leaves main.
C8_NoExceptionLeavesMain == Verifying => ~escaped

\* C10: started without the transaction-id argument, the verifier prints the
\* usage message and exits with code 1, and makes no library call at all.
C10_UsageExitBeforeAnyCall ==
    (Verifying /\ Len(argv) < 2) =>
        /\ calls = <<>>
        /\ pc \in {"start", "done"}
        /\ (pc = "done" => /\ out = <<Msg("usage", <<>>)>>
                           /\ exitCode = 1
                           /\ ~escaped)

\* C10 witness: the run without the argument has ended
C10_Witness ==
    /\ Verifying /\ Len(argv) = 1 /\ pc = "done"
    /\ exitCode = 1
    /\ out[1].msg = "usage"

-----------------------------------------------------------------------------
(* Properties of the account reader *)

Reading == script = "get_profile"

ProfileBuilt == Reading /\ profile.username # None

\* the profile fields read from get_balances(): field, group, symbol
BalanceFields ==
    {<<"hive_balance", "available", "HIVE">>,
     <<"hbd_balance", "available", "HBD">>,
     <<"savings_hive", "savings", "HIVE">>,
     <<"savings_hbd", "savings", "HBD">>,
     <<"pending_rewards_hive", "rewards", "HIVE">>,
     <<"pending_rewards_hbd", "rewards", "HBD">>,
     <<"pending_rewards_vests", "rewards", "VESTS">>}

SubFetches == {"get_balances", "get_steem_power", "get_rc_manabar", "get_follow_count"}

\* C5 as stated: whatever manabar get_rc_manabar returns, the reported
\* rc_percentage is between 0 and 100, and it is 0 when max_mana is 0.
C5_RcPercentageWithinBounds ==
    (Reading /\ profile.resource_credits.kind = "ok") =>
        /\ profile.resource_credits.rc_percentage >= 0
        /\ profile.resource_credits.rc_percentage <= 100 * 100
        /\ (profile.resource_credits.max_rc = 0 =>
                profile.resource_credits.rc_percentage = 0)

\* C6 as stated: the failure of a sub-fetch (balances, Hive Power conversion,
\* RC manabar, follow counts) never makes get_account_details fail.
C6_SubFetchFailureNeverAborts ==
    (Reading /\ raisedCalls \cap SubFetches # {}) => gadResult # "raised"

\* C9: in the profile get_account_details builds, every balance field whose
\* group is a dict without an entry for the field's symbol is 0.0, and every
\* field whose entry is an amount is that amount; a missing entry does not
\* make get_account_details fail.
C9_MissingBalanceIsZero ==
    /\ ProfileBuilt =>
        \A f \in BalanceFields :
            LET group == balances[f[2]]
                entry == group.entries[f[3]]
            IN /\ (group.isDict /\ entry.kind = "missing") => profile[f[1]] = 0
               /\ (group.isDict /\ entry.kind = "amount") => profile[f[1]] = entry.amount
    /\ (Reading /\ gadResult = "raised") => raisedCalls # {}

\* C9 witness: the account has a HIVE balance and no HBD entry, and the
\* profile was returned with hbd_balance = 0.0
C9_Witness ==
    /\ ProfileBuilt
    /\ gadResult = "returned"
    /\ balances.available.isDict
    /\ balances.available.entries["HBD"] = Missing
    /\ balances.available.entries["HIVE"] = Amount(1500)
    /\ profile.hbd_balance = 0
    /\ profile.hive_balance = 1500

-----------------------------------------------------------------------------
(* Properties of the poster *)

RECURSIVE UpTo(_)
UpTo(n) == IF n = 0 THEN <<>> ELSE Append(UpTo(n - 1), n)

SummaryPrinted == script = "poster_main" /\ pc = "done" /\ Said("summary")

Summary == [successful |-> out[Len(out)].data[1], failed |-> out[Len(out)].data[2]]

\* C1: whatever calls raise, main attempts all 20 broadcasts in the order
\* counter = 1..20 (a raising call does not end the loop, and no broadcast is
\* attempted twice); the summary's successful is the number of calls that
\* returned, failed the number that raised, and they add up to 20; when
\* exactly every 5th call raised the summary is 16 successful, 4 failed.
C1_AllPostsAttemptedAndCounted ==
    /\ (script = "poster_main" /\ pc \in {"loop", "summary"}) =>
            /\ posted = UpTo(i - 1)
            /\ failed = nRaised
            /\ successful = (i - 1) - nRaised
    /\ SummaryPrinted =>
            /\ posted = UpTo(NumPosts)
            /\ Summary.failed = nRaised
            /\ Summary.successful = NumPosts - nRaised
            /\ Summary.successful + Summary.failed = NumPosts
            /\ (pattern5 => Summary.successful = 16 /\ Summary.failed = 4)

\* C1 witness: the summary of a run in which exactly every 5th call raised
C1_Witness ==
    /\ SummaryPrinted
    /\ pattern5
    /\ nRaised = 4
    /\ Summary = [successful |-> 16, failed |-> 4]

DirectCallSubmitted ==
    script = "post_custom_json" /\ pc = "done" /\ lastOp # NoOp

\* C7 as stated: an empty required_posting_auths, whether not supplied or
\* supplied as the empty list, is submitted as [account_name]; a non-empty
\* list is passed through; required_auths defaults to the empty list.
C7_EmptyPostingAuthsDefaulted ==
    DirectCallSubmitted =>
        /\ (args.required_posting_auths.list = <<>> =>
                lastOp.required_posting_auths = <<env.HIVE_ACCOUNT>>)
        /\ (args.required_posting_auths.list # <<>> =>
                lastOp.required_posting_auths =
                    args.required_posting_auths.list)
        /\ (~args.required_auths.supplied => lastOp.required_auths = <<>>)

\* C7 amended: required_posting_auths is submitted as [account_name] when the
\* caller did not supply it (None); a list the caller supplied, empty or not,
\* is passed through unchanged; required_auths defaults to the empty list
\* when not supplied.
C7_UnsuppliedPostingAuthsDefaulted ==
    DirectCallSubmitted =>
        /\ (~args.required_posting_auths.supplied =>
                lastOp.required_posting_auths = <<env.HIVE_ACCOUNT>>)
        /\ (args.required_posting_auths.supplied =>
                lastOp.required_posting_auths =
                    args.required_posting_auths.list)
        /\ (~args.required_auths.supplied => lastOp.required_auths = <<>>)
        /\ (args.required_auths.supplied =>
                lastOp.required_auths = args.required_auths.list)

\* C7 witness: a direct call that supplied the empty list and was submitted
\* with it, and one that supplied nothing
C7_Witness ==
    /\ DirectCallSubmitted
    /\ args.required_posting_auths = SomeList(<<>>)
    /\ ~args.required_auths.supplied
    /\ lastOp.required_posting_auths = <<>>

=============================================================================
